---- MODULE Spec2Model ----
(***************************************************************************)
(* Transaction Routing Gateway of AxsolTools/invsol.                       *)
(*                                                                         *)
(* The tRPC transaction handlers of server/routers.ts (transfer,           *)
(* getTransaction, getRoutingStatus, confirmTransaction), the two tables   *)
(* of drizzle/schema.ts, the upstream exchange service, the background     *)
(* status monitor and the outbound request queue.  Every handler is cut    *)
(* at its awaits, so concurrent requests interleave as in Node.            *)
(*                                                                         *)
(* SpecRequest  : one handler serving transfer on every kind of request    *)
(*                and every kind of create response.                       *)
(* SpecTransfer : concurrent handlers serving transfer.                    *)
(* Spec         : the life of a transfer: transfer, the status procedures, *)
(*                the monitor and the exchange service moving on.          *)
(* SpecQueue    : the outbound request queue (server/_core/apiQueue.ts).   *)
(***************************************************************************)
EXTENDS Integers, Sequences, FiniteSets, TLC

\* ------------------------------------------------------------------ bounds
\* concurrent request handlers
NumProcs == 2
\* handlers at work while the status of a transfer is followed
NumSessions == 1
\* distinct values nanoid(8) can return (a small pool makes collisions happen)
NumRefs == 2
\* upstream transactions the exchange service creates in one run
MaxUpstream == 2

Procs == 1..NumProcs
Sessions == {p \in Procs : p <= NumSessions}
Refs == 1..NumRefs
UpIds == 1..MaxUpstream

\* ------------------------------------------------------------- currencies
\* ADDRESS_PATTERNS: the keys of the pattern table
ADDRESS_PATTERNS == {"sol", "evm", "btc", "xrp", "tron"}

\* a table that knows the Solana network only
NETWORK_ADDRESS_TYPE_SOL_ONLY == [n \in {"sol"} |-> "sol"]

\* NETWORK_ADDRESS_TYPE: network id -> pattern key
NETWORK_ADDRESS_TYPE ==
  [n \in {"sol", "eth", "bsc", "arbitrum", "optimism", "base", "polygon",
          "opbnb", "btc", "xrp", "trx", "trc20", "erc20"} |->
     CASE n = "sol" -> "sol"
       [] n = "btc" -> "btc"
       [] n = "xrp" -> "xrp"
       [] n \in {"trx", "trc20"} -> "tron"
       [] OTHER -> "evm"]

\* SUPPORTED_CURRENCIES: ticker -> network ids
CURRENCY_NETWORKS ==
  [c \in {"sol", "btc", "eth", "bnb", "xrp", "usdt", "usdc"} |->
     CASE c = "sol" -> {"sol"}
       [] c = "btc" -> {"btc"}
       [] c = "eth" -> {"eth", "arbitrum", "optimism", "base"}
       [] c = "bnb" -> {"bsc", "opbnb"}
       [] c = "xrp" -> {"xrp"}
       [] c = "usdt" -> {"eth", "trx", "bsc", "sol", "polygon", "arbitrum", "optimism"}
       [] c = "usdc" -> {"eth", "polygon", "sol", "arbitrum", "base"}]

\* SUPPORTED_CURRENCIES: ticker -> minAmount, in units of 1/10000 of a coin
\* (0.1 is 1000, 0.0005 is 5, 10 is 100000)
MIN_AMOUNT ==
  [c \in DOMAIN CURRENCY_NETWORKS |->
     CASE c = "sol" -> 1000
       [] c = "btc" -> 5
       [] c = "eth" -> 50
       [] c = "bnb" -> 100
       [] OTHER -> 100000]

\* String.prototype.toLowerCase on the tickers and network ids used as inputs
ToLowerCase(s) ==
  CASE s = "SOL" -> "sol"
    [] s = "USDT" -> "usdt"
    [] s = "ETH" -> "eth"
    [] OTHER -> s

\* getCurrency: the ticker's configuration is found (compared in lower case)
getCurrency(ticker) == ToLowerCase(ticker) \in DOMAIN CURRENCY_NETWORKS

\* getNetwork: the network is one of the currency's networks
getNetwork(ticker, networkId) ==
  /\ getCurrency(ticker)
  /\ ToLowerCase(networkId) \in CURRENCY_NETWORKS[ToLowerCase(ticker)]

\* ---------------------------------------------------------------- strings
\* An address string is its text and whether white space surrounds the text.
\* PatternOf gives the key of the one ADDRESS_PATTERNS regex the text
\* matches ("none": no pattern matches; "" is the empty string).
AddressTexts == {"", "SoLRecipient", "SoLOther", "0xRecipient", "not an address"}

PatternOf(text) ==
  CASE text \in {"SoLRecipient", "SoLOther", "SoLDeposit"} -> "sol"
    [] text \in {"0xRecipient", "0xDeposit"} -> "evm"
    [] OTHER -> "none"

NoAddress == [text |-> "", pad |-> FALSE]

\* String.prototype.trim
Trim(a) == [a EXCEPT !.pad = FALSE]

\* the length of the string is 0 (a JavaScript falsy string)
IsEmptyString(a) == a.text = "" /\ ~a.pad

\* address.length >= 20: every non-empty text used here is that long
LengthAtLeast20(a) == a.text # ""

\* a validation that takes every non-empty string
isValidAddressAny(address, networkId) == ~IsEmptyString(address)

\* isValidAddress(address, networkId)
isValidAddress(address, networkId) ==
  IF IsEmptyString(address) THEN FALSE
  ELSE IF ToLowerCase(networkId) \notin DOMAIN NETWORK_ADDRESS_TYPE
       THEN LengthAtLeast20(address)
       ELSE PatternOf(Trim(address).text) = NETWORK_ADDRESS_TYPE[ToLowerCase(networkId)]

\* parseFloat on the amount strings used as inputs: the longest numeric
\* prefix is parsed, a string without one gives NaN (values in 1/10000)
AmountStrings == {"", "abc", "0", "-1", "0.05", "1.5", "1.5abc", "20"}

Number(v) == [nan |-> FALSE, value |-> v]

parseFloat(s) ==
  CASE s = "0" -> Number(0)
    [] s = "-1" -> Number(-10000)
    [] s = "0.05" -> Number(500)
    [] s \in {"1.5", "1.5abc"} -> Number(15000)
    [] s = "20" -> Number(200000)
    [] OTHER -> [nan |-> TRUE, value |-> 0]

isNaN(x) == x.nan

\* ----------------------------------------------------------------- inputs
Payload(present, addr, amount, currency, network) ==
  [present |-> present, recipientAddress |-> addr, amount |-> amount,
   currency |-> currency, network |-> network]

\* a request without a body
NoPayload == Payload(FALSE, NoAddress, "", "", "")

BasePayloads ==
  { Payload(TRUE, [text |-> "SoLRecipient", pad |-> FALSE], "1.5", "sol", "sol"),
    Payload(TRUE, [text |-> "0xRecipient", pad |-> FALSE], "20", "usdt", "eth") }

CurrencyInputs == {"sol", "SOL", "usdt", "doge", ""}
NetworkInputs == {"sol", "eth", "btc", "xyz", ""}
AddressInputs == [text : AddressTexts, pad : BOOLEAN]

\* the request behind the transfers whose status is followed
CoordInputs ==
  { Payload(TRUE, [text |-> "SoLRecipient", pad |-> FALSE], "1.5", "sol", "sol") }

\* the requests of concurrent transfers: a plain one, one with white space
\* around the address, one below the minimum amount
RaceInputs ==
  { Payload(TRUE, [text |-> "SoLRecipient", pad |-> pad], "1.5", "sol", "sol") :
      pad \in BOOLEAN }
  \cup { Payload(TRUE, [text |-> "SoLRecipient", pad |-> FALSE], "0.05", "sol", "sol") }

\* the requests the clients send: a base payload with at most one field changed
TransferInputs ==
  {NoPayload} \cup BasePayloads
  \cup {[b EXCEPT !.currency = c] : b \in BasePayloads, c \in CurrencyInputs}
  \cup {[b EXCEPT !.network = n] : b \in BasePayloads, n \in NetworkInputs}
  \cup {[b EXCEPT !.recipientAddress = a] : b \in BasePayloads, a \in AddressInputs}
  \cup {[b EXCEPT !.amount = s] : b \in BasePayloads, s \in AmountStrings}


\* ------------------------------------------------------------------ state
VARIABLES
  pc,                 \* per handler: the await it is suspended at
  op,                 \* per handler: the procedure it runs
  req,                \* per handler: the transfer payload it received
  loc,                \* per handler: its local variables
  did,                \* per handler: what this run has done so far (history)
  out,                \* the last result a handler returned or threw
  transactionRouting, \* table transaction_routing
  transactions,       \* table transactions
  upstream,           \* the exchange service: status of each of its transactions
  monitorWrites,      \* status writes of the monitor, per reference (history)
  queue,              \* outbound queue: waiting calls, in arrival order
  clock,              \* outbound queue: time of the last dispatch slot, in ms
  recent,             \* outbound queue: dispatch times of the last second
  dispatched,         \* outbound queue: the calls sent in the last slot
  arrivals,           \* outbound queue: enqueue events so far (history)
  now,                \* rate limiter: Date.now(), in ms
  store,              \* rate limiter: the module's store, per client id
  limiterLog,         \* rate limiter: requests seen and admitted (history)
  replies,            \* rate limiter: the answers to the last requests
  calls,              \* rate limiter: bursts handled so far (history)
  blocked,            \* rate limiter: clients answered 429 so far (history)
  attempt,            \* retry loop: the loop variable
  retryPc,            \* retry loop: position of the call
  fetched,            \* retry loop: outcome of each attempt so far (history)
  waited,             \* retry loop: the waits slept so far, in ms (history)
  transactionResult,  \* client: routingTransactionId of its transfer (0: null)
  queryData,          \* client: status of the last answer of the query ("": none)
  fetching,           \* client: a status request is in flight
  timer,              \* client: ms to the next interval refetch
  form,               \* client: the fields of the form and the fee estimate
  isPending           \* client: transferMutation.isPending

coordVars == <<pc, op, req, loc, did, out, transactionRouting, transactions,
               upstream, monitorWrites>>
queueVars == <<queue, clock, recent, dispatched, arrivals>>
limiterVars == <<now, store, limiterLog, replies, calls, blocked>>
retryVars == <<attempt, retryPc, fetched, waited>>
clientVars == <<transactionResult, queryData, fetching, timer, form, isPending>>
vars == <<pc, op, req, loc, did, out, transactionRouting, transactions,
          upstream, monitorWrites, queue, clock, recent, dispatched, arrivals,
          now, store, limiterLog, replies, calls, blocked,
          attempt, retryPc, fetched, waited,
          transactionResult, queryData, fetching, timer, form, isPending>>

\* upstream status vocabulary, in order of progress
PENDING_STATUSES == <<"waiting", "confirming", "exchanging", "sending">>
TERMINAL_STATUSES == {"finished", "failed", "refunded", "expired"}
UpstreamStatuses ==
  {PENDING_STATUSES[i] : i \in DOMAIN PENDING_STATUSES} \cup TERMINAL_STATUSES

NoLocals ==
  [arg |-> 0, address |-> NoAddress, network |-> "", routingTxId |-> 0,
   payinAddress |-> NoAddress, payoutAddress |-> NoAddress, userTxRef |-> 0,
   tx |-> {}]

\* characters of a settlement hash
HashLength == 20

\* no hash in a result
NoHash == [text |-> <<>>, ellipsis |-> FALSE]

NoResponse ==
  [code |-> "NONE", txSignature |-> 0, payinAddress |-> NoAddress,
   routingTransactionId |-> 0, status |-> "", routingStatus |-> "",
   payoutHash |-> NoHash, rows |-> {}]

Error(code) == [NoResponse EXCEPT !.code = code]

NoOutput ==
  [proc |-> 0, op |-> "none", payload |-> NoPayload, loc |-> NoLocals,
   response |-> NoResponse, did |-> {}]

\* handler p, running procedure o on payload, moves to its next await with
\* locals l and history events; with next = "idle" it returns or throws r:
\* its locals are gone and out keeps the run (its request, its last locals,
\* r and its history) until the next request comes in
Step(p, o, payload, next, l, r, events) ==
  /\ pc' = [pc EXCEPT ![p] = next]
  /\ IF next = "idle"
       THEN /\ op' = [op EXCEPT ![p] = "none"]
            /\ req' = [req EXCEPT ![p] = NoPayload]
            /\ loc' = [loc EXCEPT ![p] = NoLocals]
            /\ did' = [did EXCEPT ![p] = {}]
            /\ out' = [proc |-> p, op |-> o, payload |-> payload, loc |-> l,
                       response |-> r, did |-> events]
       ELSE /\ op' = [op EXCEPT ![p] = o]
            /\ req' = [req EXCEPT ![p] = payload]
            /\ loc' = [loc EXCEPT ![p] = l]
            /\ did' = [did EXCEPT ![p] = events]
            /\ out' = IF pc[p] = "idle" THEN NoOutput ELSE out

\* handler p, suspended at an await, goes on
Resume(p, next, l, r, events) == Step(p, op[p], req[p], next, l, r, events)

CoordInit ==
  /\ pc = [p \in Procs |-> "idle"]
  /\ op = [p \in Procs |-> "none"]
  /\ req = [p \in Procs |-> NoPayload]
  /\ loc = [p \in Procs |-> NoLocals]
  /\ did = [p \in Procs |-> {}]
  /\ out = NoOutput
  /\ transactionRouting = {}
  /\ transactions = {}
  /\ upstream = [i \in UpIds |-> "none"]
  /\ monitorWrites = [r \in Refs |-> 0]

\* --------------------------------------------------------------- database
\* a table without the constraint
RoutingNotUnique(table, txSignature) == TRUE

\* transaction_routing."txSignature" UNIQUE: no row holds the reference yet
RoutingUnique(table, txSignature) ==
  \A row \in table : row.txSignature # txSignature

\* a table without the constraint
TransactionNotUnique(table, txSignature) == TRUE

\* transactions_txsignature_unique: no row holds the reference yet
TransactionUnique(table, txSignature) ==
  \A row \in table : row.txSignature # txSignature

\* storeRoutingTransactionId(txSignature, routingTransactionId): one INSERT;
\* TRUE when the row was written, FALSE when the insert threw
StoreRoutingSucceeds(dbOk, table, txSignature) ==
  dbOk /\ RoutingUnique(table, txSignature)

\* getRoutingTransactionId(txSignature): the upstream ids mapped to it
getRoutingTransactionId(table, txSignature) ==
  {row.routingTransactionId : row \in {r \in table : r.txSignature = txSignature}}

\* db.createTransaction(row): one INSERT; TRUE when the row was written
CreateTransactionSucceeds(dbOk, table, txSignature) ==
  dbOk /\ TransactionUnique(table, txSignature)

\* db.getTransactionBySignature(txSignature): the rows found
getTransactionBySignature(table, txSignature) ==
  {row \in table : row.txSignature = txSignature}

\* an UPDATE of the status column alone
updateTransactionStatusOnly(table, txSignature, status, errorMessage) ==
  {IF row.txSignature = txSignature
     THEN [row EXCEPT !.status = status]
     ELSE row : row \in table}

\* db.updateTransactionStatus(txSignature, status, errorMessage): one UPDATE
updateTransactionStatus(table, txSignature, status, errorMessage) ==
  {IF row.txSignature = txSignature
     THEN [row EXCEPT !.status = status, !.errorMessage = errorMessage]
     ELSE row : row \in table}

\* --------------------------------------------------------------- transfer
\* currency = (payload.currency || "sol").toLowerCase()
TransferCurrency(payload) ==
  ToLowerCase(IF payload.currency = "" THEN "sol" ELSE payload.currency)

\* network = (payload.network || currency).toLowerCase()
TransferNetwork(payload) ==
  ToLowerCase(IF payload.network = "" THEN TransferCurrency(payload)
              ELSE payload.network)

\* a handler that turns away a request another handler is serving
ValidationErrorOnRepeat(payload) ==
  IF \E q \in Procs : op[q] = "transfer" /\ req[q] = payload
    THEN "Duplicate request" ELSE ""

\* the checks of transfer before the create call, in their order: the
\* message of the BAD_REQUEST thrown, "" when the payload passes
ValidationError(payload) ==
  LET currency == TransferCurrency(payload)
      network == TransferNetwork(payload)
      amount == parseFloat(payload.amount)
  IN  IF ~payload.present \/ IsEmptyString(payload.recipientAddress)
         \/ payload.amount = ""
        THEN "Missing transfer payload (recipientAddress, amount)"
      ELSE IF ~getCurrency(currency) THEN "Unsupported currency"
      ELSE IF ~getNetwork(currency, network) THEN "Unsupported network"
      ELSE IF ~isValidAddress(payload.recipientAddress, network)
        THEN "Invalid address"
      ELSE IF isNaN(amount) \/ amount.value <= 0 THEN "Invalid amount"
      ELSE IF amount.value < MIN_AMOUNT[currency] THEN "Minimum amount"
      ELSE ""

\* the deposit address the exchange service hands out on a network
DepositAddress(network) ==
  [text |-> IF network \notin DOMAIN NETWORK_ADDRESS_TYPE THEN ""
            ELSE IF NETWORK_ADDRESS_TYPE[network] = "sol" THEN "SoLDeposit"
            ELSE "0xDeposit",
   pad |-> FALSE]

\* what the exchange service may do with each field of its create response:
\* the id present or not; the deposit address sent, absent or malformed; the
\* payout address the one asked for, absent or another one
ResponseShapes ==
  [id : BOOLEAN, payinAddress : {"deposit", "absent", "malformed"},
   payoutAddress : {"echo", "absent", "other"}]

\* an exchange service that does what it was asked
HonestShapes ==
  {[id |-> TRUE, payinAddress |-> "deposit", payoutAddress |-> "echo"]}

\* the create response of that shape for transaction id and request params
CreateResponse(shape, id, params) ==
  [id |-> IF shape.id THEN id ELSE 0,
   payinAddress |->
     CASE shape.payinAddress = "deposit" -> DepositAddress(params.network)
       [] shape.payinAddress = "absent" -> NoAddress
       [] OTHER -> [text |-> "not an address", pad |-> FALSE],
   payoutAddress |->
     CASE shape.payoutAddress = "echo" -> params.address
       [] shape.payoutAddress = "absent" -> NoAddress
       [] OTHER -> [text |-> "SoLOther", pad |-> FALSE]]

\* a client that does not look at the id
HasTransactionIdUnchecked(data) == TRUE

\* if (!data.id || typeof data.id !== 'string')
HasTransactionId(data) == data.id # 0

\* if (!data.payinAddress || typeof data.payinAddress !== 'string'), then
\* new PublicKey(data.payinAddress): the deposit address is a Solana address
PayinAddressValid(data) ==
  /\ ~IsEmptyString(data.payinAddress)
  /\ ~data.payinAddress.pad
  /\ PatternOf(data.payinAddress.text) = "sol"

\* a check that only wants a payout address
PayoutAddressPresent(data, params) == ~IsEmptyString(data.payoutAddress)

\* if (!data.payoutAddress || data.payoutAddress !== params.address.trim())
PayoutAddressMatches(data, params) ==
  /\ ~IsEmptyString(data.payoutAddress)
  /\ data.payoutAddress = Trim(params.address)

\* createRoutingTransaction's checks of the response; FALSE: it throws
CreateResponseValid(data, params) ==
  /\ HasTransactionId(data)
  /\ PayinAddressValid(data)
  /\ PayoutAddressMatches(data, params)

\* an exchange service that hands out one id again and again
FreshUpstreamIdReused == CHOOSE i \in UpIds : TRUE

\* the smallest id the exchange service has not used yet (0: none left)
FreshUpstreamId ==
  IF \E i \in UpIds : upstream[i] = "none"
    THEN CHOOSE i \in UpIds :
           upstream[i] = "none" /\ \A j \in 1..(i - 1) : upstream[j] # "none"
    ELSE 0

\* a handler that draws its reference before it queues the create call
CreateParamsWithReference(payload) ==
  [NoLocals EXCEPT !.address = Trim(payload.recipientAddress),
                   !.network = TransferNetwork(payload),
                   !.userTxRef = CHOOSE ref \in Refs : TRUE]

\* what queueCreateTransaction is called with
CreateParams(payload) ==
  [NoLocals EXCEPT !.address = Trim(payload.recipientAddress),
                   !.network = TransferNetwork(payload)]

\* transfer, up to the await of queueCreateTransaction: what the handler does
TransferBegin(p, payload) ==
  /\ pc[p] = "idle"
  /\ IF ValidationError(payload) # ""
       THEN Step(p, "transfer", payload, "idle", NoLocals, Error("BAD_REQUEST"), {})
       ELSE Step(p, "transfer", payload, "awaitCreate", CreateParams(payload),
                 NoResponse, {"createQueued"})
  /\ UNCHANGED <<transactionRouting, transactions, upstream, monitorWrites>>

\* transfer, up to the await of queueCreateTransaction
TransferStart(p, payload) ==
  /\ TransferBegin(p, payload)
  /\ UNCHANGED <<queueVars, limiterVars, retryVars, clientVars>>

\* the create call fails upstream (4xx, or 5xx and network errors until the
\* attempts are used up): transfer rethrows as INTERNAL_SERVER_ERROR
TransferCreateFails(p) ==
  /\ pc[p] = "awaitCreate"
  /\ Resume(p, "idle", loc[p], Error("INTERNAL_SERVER_ERROR"), did[p])
  /\ UNCHANGED <<transactionRouting, transactions, upstream, monitorWrites>>
  /\ UNCHANGED <<queueVars, limiterVars, retryVars, clientVars>>

\* a response that fails the checks makes queueCreateTransaction throw
NextAfterCreate(valid) == IF valid THEN "storeRouting" ELSE "idle"

\* the exchange service creates its transaction and answers;
\* createRoutingTransaction checks the response, then transfer draws userTxRef
TransferCreateAnswers(p, shape, ref) ==
  /\ pc[p] = "awaitCreate"
  /\ FreshUpstreamId # 0
  /\ upstream' = [upstream EXCEPT ![FreshUpstreamId] = "waiting"]
  /\ LET data == CreateResponse(shape, FreshUpstreamId, loc[p])
         valid == CreateResponseValid(data, loc[p])
     IN  Resume(p, NextAfterCreate(valid),
                [loc[p] EXCEPT !.routingTxId = data.id,
                               !.payinAddress = data.payinAddress,
                               !.payoutAddress = data.payoutAddress,
                               !.userTxRef = IF valid THEN ref ELSE 0],
                Error("INTERNAL_SERVER_ERROR"),
                did[p] \cup {IF valid THEN "created" ELSE "createRejected"})
  /\ UNCHANGED <<transactionRouting, transactions, monitorWrites>>
  /\ UNCHANGED <<queueVars, limiterVars, retryVars, clientVars>>

\* the success value transfer returns
TransferResult(l) ==
  [NoResponse EXCEPT !.code = "OK", !.txSignature = l.userTxRef,
                     !.payinAddress = l.payinAddress,
                     !.routingTransactionId = l.routingTxId]

\* a handler that writes the record whatever became of the mapping
NextAfterStoreRoutingAlways(stored) == "createTransaction"

\* inside the try block: a throw of storeRoutingTransactionId skips
\* db.createTransaction and lands in the catch, which only logs
NextAfterStoreRouting(stored) == IF stored THEN "createTransaction" ELSE "idle"

\* await storeRoutingTransactionId(userTxRef, routingTx.id)
TransferStoreRouting(p, dbOk) ==
  /\ pc[p] = "storeRouting"
  /\ LET stored == StoreRoutingSucceeds(dbOk, transactionRouting, loc[p].userTxRef)
     IN  /\ transactionRouting' =
               IF stored
                 THEN transactionRouting \cup
                        {[txSignature |-> loc[p].userTxRef,
                          routingTransactionId |-> loc[p].routingTxId]}
                 ELSE transactionRouting
         /\ Resume(p, NextAfterStoreRouting(stored), loc[p], TransferResult(loc[p]),
                   did[p] \cup {IF stored THEN "routingStored"
                                ELSE IF dbOk THEN "routingDuplicate"
                                ELSE "routingFailed"})
  /\ UNCHANGED <<transactions, upstream, monitorWrites>>
  /\ UNCHANGED <<queueVars, limiterVars, retryVars, clientVars>>

\* the wallet id of a transfer's record when the placeholder wallet cannot
\* be read or made, also the id of the first wallet of the table
DepositWalletId == 1

\* the wallet lookup and await db.createTransaction({...}), then the return
TransferCreateTransaction(p, dbOk) ==
  /\ pc[p] = "createTransaction"
  /\ LET stored == CreateTransactionSucceeds(dbOk, transactions, loc[p].userTxRef)
     IN  /\ transactions' =
               IF stored
                 THEN transactions \cup
                        {[txSignature |-> loc[p].userTxRef,
                          walletId |-> DepositWalletId,
                          payinAddress |-> loc[p].payinAddress,
                          status |-> "pending", errorMessage |-> ""]}
                 ELSE transactions
         /\ Resume(p, "idle", loc[p], TransferResult(loc[p]),
                   did[p] \cup {IF stored THEN "recordStored" ELSE "recordFailed"})
  /\ UNCHANGED <<transactionRouting, upstream, monitorWrites>>
  /\ UNCHANGED <<queueVars, limiterVars, retryVars, clientVars>>

\* ------------------------------------------------------- upstream service
\* the exchange service moves one of its transactions forward
UpstreamAdvance(id, status) ==
  /\ upstream[id] \in {PENDING_STATUSES[i] : i \in DOMAIN PENDING_STATUSES}
  /\ status \in UpstreamStatuses
  /\ \/ status \in TERMINAL_STATUSES
     \/ \E i, j \in DOMAIN PENDING_STATUSES :
          i < j /\ PENDING_STATUSES[i] = upstream[id] /\ PENDING_STATUSES[j] = status
  /\ upstream' = [upstream EXCEPT ![id] = status]
  /\ UNCHANGED <<pc, op, req, loc, did, out, transactionRouting, transactions,
                 monitorWrites>>
  /\ UNCHANGED <<queueVars, limiterVars, retryVars, clientVars>>

\* getTransactionStatus(id) can answer: the service knows the transaction
UpstreamKnows(id) == id \in UpIds /\ upstream[id] # "none"

\* --------------------------------------------------------- getTransaction
\* a handler that asks upstream whatever the stored status
ShouldQueryRoutingAlways(tx) == ~IsEmptyString(tx.payinAddress)

\* if (tx.payinAddress && tx.status === "pending")
ShouldQueryRouting(tx) ==
  ~IsEmptyString(tx.payinAddress) /\ tx.status = "pending"

\* { ...tx, routingStatus }
TransactionResult(tx, routingStatus) ==
  [NoResponse EXCEPT !.code = "OK", !.txSignature = tx.txSignature,
                     !.payinAddress = tx.payinAddress, !.status = tx.status,
                     !.routingStatus = routingStatus]

\* getTransaction, up to the await of queueGetTransactionStatus; a throw
\* of getRoutingTransactionId is caught and leaves routingStatus null.  The
\* two reads are one step: transaction_routing only grows and holds one row
\* per reference, so the later read finds what it would have found at once
GetTransactionStart(p, txSignature, dbOk) ==
  LET found == getTransactionBySignature(transactions, txSignature)
      ids == IF dbOk THEN getRoutingTransactionId(transactionRouting, txSignature)
             ELSE {}
      asks == /\ found # {}
              /\ ShouldQueryRouting(CHOOSE row \in found : TRUE)
              /\ ids # {}
      l == [NoLocals EXCEPT !.arg = txSignature, !.tx = found,
                            !.routingTxId = IF asks THEN CHOOSE i \in ids : TRUE
                                            ELSE 0]
  IN  /\ pc[p] = "idle"
      /\ IF found = {}
           THEN Step(p, "getTransaction", NoPayload, "idle", l, Error("NOT_FOUND"), {})
         ELSE IF asks
           THEN Step(p, "getTransaction", NoPayload, "awaitRoutingStatus", l,
                     NoResponse, {"statusQueued"})
         ELSE Step(p, "getTransaction", NoPayload, "idle", l,
                   TransactionResult(CHOOSE row \in found : TRUE, ""), {})
      /\ UNCHANGED <<transactionRouting, transactions, upstream, monitorWrites>>
      /\ UNCHANGED <<queueVars, limiterVars, retryVars, clientVars>>

\* the payoutHash of the exchange service's status answer: the settlement
\* hash, once the transaction is finished
RawPayoutHash(id, status) ==
  IF status = "finished" THEN [i \in 1..HashLength |-> (id + i) % 10] ELSE <<>>

\* the status call of getTransaction resolves, or throws (caught: null);
\* the answer goes into the result as it came
GetTransactionFinish(p, ok) ==
  /\ pc[p] = "awaitRoutingStatus"
  /\ op[p] = "getTransaction"
  /\ LET id == loc[p].routingTxId
         tx == CHOOSE row \in loc[p].tx : TRUE
     IN  Resume(p, "idle", loc[p],
                IF ok /\ UpstreamKnows(id)
                  THEN [TransactionResult(tx, upstream[id]) EXCEPT
                          !.payoutHash = [text |-> RawPayoutHash(id, upstream[id]),
                                          ellipsis |-> FALSE]]
                  ELSE TransactionResult(tx, ""),
                did[p])
  /\ UNCHANGED <<transactionRouting, transactions, upstream, monitorWrites>>
  /\ UNCHANGED <<queueVars, limiterVars, retryVars, clientVars>>

\* ------------------------------------------------------ getRecent, history
\* getRecent: the newest records (the tables of the model hold fewer than
\* the 50 it returns), or none without a database
GetRecent(p, dbOk) ==
  /\ pc[p] = "idle"
  /\ Step(p, "getRecent", NoPayload, "idle", NoLocals,
          [NoResponse EXCEPT !.code = "OK",
                             !.rows = IF dbOk THEN transactions ELSE {}],
          {})
  /\ UNCHANGED <<transactionRouting, transactions, upstream, monitorWrites>>
  /\ UNCHANGED <<queueVars, limiterVars, retryVars, clientVars>>

\* no wallet has the public key
NoWallet == 0

\* the wallets db.getWalletByPublicKey may find for a public key
WalletInputs == {NoWallet, DepositWalletId, DepositWalletId + 1}

\* db.getTransactionsByWalletId(walletId)
getTransactionsByWalletId(table, walletId) ==
  {row \in table : row.walletId = walletId}

\* history: the records of the wallet with the public key, if there is one
History(p, walletId) ==
  /\ pc[p] = "idle"
  /\ Step(p, "history", NoPayload, "idle", NoLocals,
          [NoResponse EXCEPT
             !.code = "OK",
             !.rows = IF walletId = NoWallet THEN {}
                      ELSE getTransactionsByWalletId(transactions, walletId)],
          {})
  /\ UNCHANGED <<transactionRouting, transactions, upstream, monitorWrites>>
  /\ UNCHANGED <<queueVars, limiterVars, retryVars, clientVars>>

\* ------------------------------------------------------------------ shield
\* shield: the wallet lookup, the amount check, solana.shieldAssets (which
\* resolves with the signature) and db.createTransaction; every throw ends
\* as INTERNAL_SERVER_ERROR
Shield(p, walletId, amountSol, txSignature, dbOk) ==
  LET amount == parseFloat(amountSol)
      valid == walletId # NoWallet /\ ~isNaN(amount) /\ amount.value > 0
      stored == valid /\ CreateTransactionSucceeds(dbOk, transactions, txSignature)
      l == [NoLocals EXCEPT !.arg = walletId, !.userTxRef = txSignature]
  IN  /\ pc[p] = "idle"
      /\ transactions' =
            IF stored
              THEN transactions \cup
                     {[txSignature |-> txSignature, walletId |-> walletId,
                       payinAddress |-> NoAddress, status |-> "pending",
                       errorMessage |-> ""]}
              ELSE transactions
      /\ Step(p, "shield", NoPayload, "idle", l,
              IF stored
                THEN [NoResponse EXCEPT !.code = "OK", !.txSignature = txSignature]
                ELSE Error("INTERNAL_SERVER_ERROR"),
              IF ~valid THEN {}
              ELSE IF stored THEN {"recordStored"}
              ELSE IF dbOk THEN {"recordDuplicate"}
              ELSE {"recordFailed"})
      /\ UNCHANGED <<transactionRouting, upstream, monitorWrites>>
      /\ UNCHANGED <<queueVars, limiterVars, retryVars, clientVars>>

\* ------------------------------------------------------- getRoutingStatus
\* a handler that maps the upstream vocabulary to the stored one
SanitizedStatusNormalized(rawStatus) ==
  CASE rawStatus = "finished" -> "confirmed"
    [] rawStatus \in {"failed", "refunded", "expired"} -> "failed"
    [] OTHER -> "pending"

\* status: rawStatus.status as string (a type cast: the value is unchanged)
SanitizedStatus(rawStatus) == rawStatus

\* a catch block that rethrows
StatusOnErrorThrows == Error("INTERNAL_SERVER_ERROR")

\* the value returned from the catch block
StatusOnError == [NoResponse EXCEPT !.code = "OK", !.status = "waiting"]

\* getRoutingStatus, up to the await of queueGetTransactionStatus
GetRoutingStatusStart(p, routingTransactionId) ==
  /\ pc[p] = "idle"
  /\ Step(p, "getRoutingStatus", NoPayload, "awaitRoutingStatus",
          [NoLocals EXCEPT !.arg = routingTransactionId], NoResponse,
          {"statusQueued"})
  /\ UNCHANGED <<transactionRouting, transactions, upstream, monitorWrites>>
  /\ UNCHANGED <<queueVars, limiterVars, retryVars, clientVars>>

\* `${String(rawStatus.payoutHash).slice(0, 16)}...`, or undefined
TruncatedHash(h) ==
  IF h = <<>> THEN NoHash
  ELSE [text |-> SubSeq(h, 1, IF Len(h) < 16 THEN Len(h) ELSE 16),
        ellipsis |-> TRUE]

\* the status call of getRoutingStatus resolves, or throws (unknown id,
\* 4xx, or 5xx and network errors until the attempts are used up)
GetRoutingStatusFinish(p, ok) ==
  /\ pc[p] = "awaitRoutingStatus"
  /\ op[p] = "getRoutingStatus"
  /\ IF ok /\ UpstreamKnows(loc[p].arg)
       THEN Resume(p, "idle", loc[p],
                   [NoResponse EXCEPT
                      !.code = "OK",
                      !.status = SanitizedStatus(upstream[loc[p].arg]),
                      !.payoutHash = TruncatedHash(
                        RawPayoutHash(loc[p].arg, upstream[loc[p].arg]))],
                   did[p] \cup {"statusAnswered"})
       ELSE Resume(p, "idle", loc[p], StatusOnError, did[p] \cup {"statusFailed"})
  /\ UNCHANGED <<transactionRouting, transactions, upstream, monitorWrites>>
  /\ UNCHANGED <<queueVars, limiterVars, retryVars, clientVars>>

\* ----------------------------------------------------- confirmTransaction
\* confirmTransaction, up to the await of solana.confirmTransaction
ConfirmStart(p, txSignature) ==
  /\ pc[p] = "idle"
  /\ IF getTransactionBySignature(transactions, txSignature) = {}
       THEN Step(p, "confirmTransaction", NoPayload, "idle",
                 [NoLocals EXCEPT !.arg = txSignature], Error("NOT_FOUND"), {})
       ELSE Step(p, "confirmTransaction", NoPayload, "awaitConfirm",
                 [NoLocals EXCEPT !.arg = txSignature], NoResponse, {})
  /\ UNCHANGED <<transactionRouting, transactions, upstream, monitorWrites>>
  /\ UNCHANGED <<queueVars, limiterVars, retryVars, clientVars>>

\* solana.confirmTransaction answers confirmed, then
\* db.updateTransactionStatus(txSignature, confirmed ? "confirmed" : "failed", ...);
\* ok is FALSE when one of the two throws
ConfirmFinish(p, confirmed, ok) ==
  /\ pc[p] = "awaitConfirm"
  /\ IF ok
       THEN /\ transactions' = updateTransactionStatus(transactions, loc[p].arg,
                 IF confirmed THEN "confirmed" ELSE "failed",
                 IF confirmed THEN "" ELSE "Transaction failed to confirm")
            /\ Resume(p, "idle", loc[p],
                      [NoResponse EXCEPT
                         !.code = "OK",
                         !.status = IF confirmed THEN "confirmed" ELSE "failed"],
                      {"statusWritten"})
       ELSE /\ transactions' = transactions
            /\ Resume(p, "idle", loc[p], Error("INTERNAL_SERVER_ERROR"), {})
  /\ UNCHANGED <<transactionRouting, upstream, monitorWrites>>
  /\ UNCHANGED <<queueVars, limiterVars, retryVars, clientVars>>

\* ---------------------------------------------------------------- monitor
\* a monitor that takes every upstream status for the end
NormalizeStatusEager(status) ==
  IF status \in {"failed", "refunded", "expired"} THEN "failed" ELSE "confirmed"

\* upstream status -> the status stored in a transaction record
NormalizeStatus(status) ==
  CASE status = "finished" -> "confirmed"
    [] status \in {"failed", "refunded", "expired"} -> "failed"
    [] OTHER -> "pending"

\* one poll of the status monitor for a pending record: it resolves the
\* upstream id, asks the exchange service and stores a terminal outcome
MonitorPoll(txSignature) ==
  /\ \E tx \in getTransactionBySignature(transactions, txSignature) :
       /\ tx.status = "pending"
       /\ \E id \in getRoutingTransactionId(transactionRouting, txSignature) :
            /\ UpstreamKnows(id)
            /\ NormalizeStatus(upstream[id]) # "pending"
            /\ transactions' = updateTransactionStatus(transactions, txSignature,
                 NormalizeStatus(upstream[id]), "")
  /\ monitorWrites' = [monitorWrites EXCEPT ![txSignature] = @ + 1]
  /\ UNCHANGED <<pc, op, req, loc, did, out, transactionRouting, upstream>>
  /\ UNCHANGED <<queueVars, limiterVars, retryVars, clientVars>>

\* --------------------------------------------------------- outbound queue
\* requests per second the queue lets through
MAX_REQUESTS_PER_SECOND == 25
\* requests per second the exchange service accepts
UPSTREAM_LIMIT == 30
\* one second, in ms
WINDOW_MS == 1000

\* enqueue events in one run
MaxArrivals == 2
\* dispatch slots in one run
MaxSlots == 30

\* the time between two dispatch slots, in ms
DispatchInterval == WINDOW_MS \div MAX_REQUESTS_PER_SECOND

\* a queue without ranks
PriorityFlat(operation) == 1

\* a queue that ranks create calls above status checks
PriorityCreateFirst(operation) == IF operation = "create" THEN 2 ELSE 1

\* status checks rank above create calls
Priority(operation) == IF operation = "status" THEN 2 ELSE 1

\* calls one enqueue event adds: one call, or more calls than the ceiling
BurstSizes == {1, MAX_REQUESTS_PER_SECOND + 1}

QueueInit ==
  /\ queue = <<>>
  /\ clock = 0
  /\ recent = <<>>
  /\ dispatched = <<>>
  /\ arrivals = 0

\* queueCreateTransaction / queueGetTransactionStatus called n times at
\* once: the calls join the queue, however long it is
QueueEnqueue(operation, n) ==
  /\ arrivals < MaxArrivals
  /\ arrivals' = arrivals + 1
  /\ queue' = queue \o [i \in 1..n |->
                 [operation |-> operation, priority |-> Priority(operation),
                  enqueuedAt |-> clock]]
  /\ UNCHANGED <<clock, recent, dispatched>>
  /\ UNCHANGED <<coordVars, limiterVars, retryVars, clientVars>>

\* a queue that sends the last enqueued of the highest priority
SelectNewest(q) ==
  CHOOSE i \in DOMAIN q :
    /\ \A j \in DOMAIN q : q[j].priority <= q[i].priority
    /\ \A j \in (i + 1)..Len(q) : q[j].priority < q[i].priority

\* the position of the call to send next: the highest priority, and the
\* first enqueued among those
SelectNext(q) ==
  CHOOSE i \in DOMAIN q :
    /\ \A j \in DOMAIN q : q[j].priority <= q[i].priority
    /\ \A j \in 1..(i - 1) : q[j].priority < q[i].priority

\* a queue that sends all it holds
SlotSelectionAll(q) == DOMAIN q

\* the positions of the calls sent in one dispatch slot
SlotSelection(q) == IF q = <<>> THEN {} ELSE {SelectNext(q)}

\* q without the positions in sel
Without(q, sel) ==
  LET keep == {i \in DOMAIN q : i \notin sel}
      RECURSIVE pick(_, _)
      pick(i, acc) ==
        IF i > Len(q) THEN acc
        ELSE pick(i + 1, IF i \in keep THEN Append(acc, q[i]) ELSE acc)
  IN  pick(1, <<>>)

\* the calls at the positions in sel, in queue order
Taken(q, sel) ==
  LET RECURSIVE pick(_, _)
      pick(i, acc) ==
        IF i > Len(q) THEN acc
        ELSE pick(i + 1, IF i \in sel THEN Append(acc, q[i]) ELSE acc)
  IN  pick(1, <<>>)

\* the dispatch times not older than one second at time now
Prune(times, at) == SelectSeq(times, LAMBDA t : t > at - WINDOW_MS)

\* the dispatch timer fires: the selected calls go to the exchange service
QueueSlot ==
  /\ clock < MaxSlots * DispatchInterval
  /\ clock' = clock + DispatchInterval
  /\ LET sel == SlotSelection(queue)
     IN  /\ queue' = Without(queue, sel)
         /\ dispatched' = Taken(queue, sel)
         /\ recent' = Prune(recent \o [i \in 1..Cardinality(sel) |-> clock'], clock')
  /\ UNCHANGED arrivals
  /\ UNCHANGED <<coordVars, limiterVars, retryVars, clientVars>>

\* calls waiting at once when the queue is watched without its clock
MaxWaiting == 5

\* one call joins the queue, at any moment and for ever
QueueArrive(operation) ==
  /\ Len(queue) < MaxWaiting
  /\ queue' = Append(queue, [operation |-> operation,
                             priority |-> Priority(operation),
                             enqueuedAt |-> clock])
  /\ UNCHANGED <<clock, recent, dispatched, arrivals>>
  /\ UNCHANGED <<coordVars, limiterVars, retryVars, clientVars>>

\* a dispatch slot with a call to send, the time it takes left aside: the
\* selected call goes to the exchange service
QueueDispatch ==
  /\ queue # <<>>
  /\ LET sel == SlotSelection(queue)
     IN  /\ queue' = Without(queue, sel)
         /\ dispatched' = Taken(queue, sel)
  /\ UNCHANGED <<clock, recent, arrivals>>
  /\ UNCHANGED <<coordVars, limiterVars, retryVars, clientVars>>

\* ------------------------------------------------------------ rate limiter
\* server/_core/rateLimiter.ts: one store for the module, keyed by client id
\* and used by every limiter createRateLimiter returns

\* ticks of time the limiter is watched for
MaxTicks == 3
\* bursts of requests the limiter is watched for
MaxCalls == 3

ClientIds == {"ip1", "ip2"}

apiRateLimiter ==
  [name |-> "api", windowMs |-> 60 * 1000, maxRequests |-> 100]

transactionRateLimiter ==
  [name |-> "transaction", windowMs |-> 60 * 1000, maxRequests |-> 10]

Limiters == {apiRateLimiter, transactionRateLimiter}

LimiterNames == {l.name : l \in Limiters}

LimiterNamed(name) == CHOOSE l \in Limiters : l.name = name

\* time passes in halves of a window
TickMs == transactionRateLimiter.windowMs \div 2

\* requests: the x-forwarded-for entries (none when the header is absent)
\* and the socket's remote address ("" when it has none)
LimiterRequests ==
  { [forwarded |-> <<>>, remoteAddress |-> "ip1"],
    [forwarded |-> <<>>, remoteAddress |-> "ip2"],
    [forwarded |-> <<"ip1", "ip2">>, remoteAddress |-> "ip2"] }

getClientId(r) ==
  IF r.forwarded # <<>> THEN r.forwarded[1]
  ELSE IF r.remoteAddress # "" THEN r.remoteAddress
  ELSE "unknown"

NoEntry == [present |-> FALSE, count |-> 0, resetTime |-> 0]

\* Math.ceil(a / b) for a >= 0
Ceil(a, b) == (a + b - 1) \div b

\* a window that never ends
WindowOverNever(entry, t) == ~entry.present

\* a new window starts when the client has no entry or its window is over:
\* if (!store[clientId] || store[clientId].resetTime < now)
WindowOver(entry, t) == ~entry.present \/ entry.resetTime < t

OverLimitNever(entry, limiter) == FALSE

OverLimit(entry, limiter) == entry.count > limiter.maxRequests

\* the middleware createRateLimiter returns, on one request at time t:
\* the store it leaves and the answer it gives (status 200: next() called)
Middleware(limiter, st, clientId, t) ==
  LET opened == IF WindowOver(st[clientId], t)
                  THEN [present |-> TRUE, count |-> 0,
                        resetTime |-> t + limiter.windowMs]
                  ELSE st[clientId]
      entry == [opened EXCEPT !.count = @ + 1]
  IN  [store |-> [st EXCEPT ![clientId] = entry],
       reply |-> IF OverLimit(entry, limiter)
                   THEN [status |-> 429,
                         retryAfter |-> Ceil(entry.resetTime - t, 1000),
                         remaining |-> 0]
                   ELSE [status |-> 200, retryAfter |-> 0,
                         remaining |-> IF limiter.maxRequests - entry.count > 0
                                         THEN limiter.maxRequests - entry.count
                                         ELSE 0]]

\* n requests of one client, one after the other at time t: the first
\* half of them, then the rest on the store the first half leaves
RECURSIVE MiddlewareRun(_, _, _, _, _)
MiddlewareRun(limiter, st, clientId, t, n) ==
  IF n = 0 THEN [store |-> st, replies |-> <<>>]
  ELSE IF n = 1
    THEN LET m == Middleware(limiter, st, clientId, t)
         IN  [store |-> m.store, replies |-> <<m.reply>>]
    ELSE LET first == MiddlewareRun(limiter, st, clientId, t, n \div 2)
             rest == MiddlewareRun(limiter, first.store, clientId, t,
                                   n - (n \div 2))
         IN  [store |-> rest.store, replies |-> first.replies \o rest.replies]

\* sizes of the bursts: one request, as many as the strict limiter admits,
\* and one more
LimiterBursts ==
  {1, transactionRateLimiter.maxRequests,
   transactionRateLimiter.maxRequests + 1}

NoLog == [seen |-> 0, passed |-> 0, prev |-> 0, cur |-> 0]

LimiterInit ==
  /\ now = 0
  /\ store = [c \in ClientIds |-> NoEntry]
  /\ limiterLog = [c \in ClientIds |-> [l \in LimiterNames |-> NoLog]]
  /\ replies = <<>>
  /\ calls = 0
  /\ blocked = {}

\* a limiter handles n requests of one client at the present time. The
\* log keeps, for each limiter, the requests it saw of the client in the
\* client's window (seen), the requests it admitted in that window (passed)
\* and the requests it admitted in this tick (cur) and the tick before (prev)
LimiterHandle(limiter, r, n) ==
  /\ calls < MaxCalls
  /\ calls' = calls + 1
  /\ LET clientId == getClientId(r)
         run == MiddlewareRun(limiter, store, clientId, now, n)
         base == IF WindowOver(store[clientId], now)
                   THEN [l \in LimiterNames |->
                           [limiterLog[clientId][l] EXCEPT !.seen = 0, !.passed = 0]]
                   ELSE limiterLog[clientId]
         admitted == Cardinality({i \in 1..n : run.replies[i].status = 200})
     IN  /\ store' = run.store
         /\ replies' = [i \in 1..n |->
                          [clientId |-> clientId, limiter |-> limiter.name,
                           nth |-> base[limiter.name].seen + i,
                           status |-> run.replies[i].status,
                           retryAfter |-> run.replies[i].retryAfter,
                           remaining |-> run.replies[i].remaining]]
         /\ limiterLog' = [limiterLog EXCEPT ![clientId] =
                             [base EXCEPT ![limiter.name] =
                                [seen |-> @.seen + n,
                                 passed |-> @.passed + admitted,
                                 prev |-> @.prev, cur |-> @.cur + admitted]]]
         /\ blocked' = IF admitted < n THEN blocked \cup {clientId} ELSE blocked
  /\ UNCHANGED now
  /\ UNCHANGED <<coordVars, queueVars, retryVars, clientVars>>

\* a sweep that empties the store
SweepEverything(st, t) == [c \in ClientIds |-> NoEntry]

\* the body of the cleanup timer at time t:
\* if (store[key].resetTime < now) delete store[key]
Sweep(st, t) ==
  [c \in ClientIds |->
     IF st[c].present /\ st[c].resetTime < t THEN NoEntry ELSE st[c]]

\* the cleanup timer: entries whose window is over are deleted
LimiterCleanup ==
  /\ \E c \in ClientIds : store[c].present /\ store[c].resetTime < now
  /\ store' = Sweep(store, now)
  /\ UNCHANGED <<now, limiterLog, replies, calls, blocked>>
  /\ UNCHANGED <<coordVars, queueVars, retryVars, clientVars>>

\* half a window of time passes
LimiterTick ==
  /\ now < MaxTicks * TickMs
  /\ now' = now + TickMs
  /\ limiterLog' = [c \in ClientIds |-> [l \in LimiterNames |->
                      [seen |-> limiterLog[c][l].seen,
                       passed |-> limiterLog[c][l].passed,
                       prev |-> limiterLog[c][l].cur, cur |-> 0]]]
  /\ replies' = <<>>
  /\ UNCHANGED <<store, calls, blocked>>
  /\ UNCHANGED <<coordVars, queueVars, retryVars, clientVars>>

\* --------------------------------------------------------------- retries
\* the exchange client's call: the loop around fetch

maxRetries == 3

\* what one attempt meets: the status of the response, or no response at
\* all (fetch rejects: NoResponseStatus)
NoResponseStatus == 0

FetchOutcomes == {NoResponseStatus, 200, 400, 429, 500, 503}

\* response.ok
ResponseOk(status) == status >= 200 /\ status < 300

ClientError(status) == status >= 400 /\ status < 500

BackoffFlat(a) == 1000

\* the wait before the next attempt, in ms
Backoff(a) == 1000 * (a + 1)

\* the test both the try block and the catch block make before they wait
RetriesLeft(a) == a < maxRetries - 1

RetryInit ==
  /\ attempt = 0
  /\ retryPc = "idle"
  /\ fetched = <<>>
  /\ waited = <<>>

\* a dispatched call enters the loop
RetryCall ==
  /\ retryPc \in {"idle", "returned", "threw"}
  /\ attempt' = 0
  /\ retryPc' = "fetching"
  /\ fetched' = <<>>
  /\ waited' = <<>>
  /\ UNCHANGED <<coordVars, queueVars, limiterVars, clientVars>>

\* the catch block of the loop, where every error thrown in the try block
\* lands, the error thrown for a 4xx response included
Catch(a) == IF RetriesLeft(a) THEN "waiting" ELSE "threw"

\* what follows the loop when the last attempt met a 5xx response: the
\* failure is surfaced to the caller
AfterLoop == "threw"

\* where one attempt leaves the call
AttemptEnds(a, outcome) ==
  CASE outcome = NoResponseStatus -> Catch(a)
    [] ResponseOk(outcome) -> "returned"
    [] ClientError(outcome) -> Catch(a)
    [] OTHER -> IF RetriesLeft(a) THEN "waiting" ELSE AfterLoop

\* one attempt, up to the return, the throw or the start of the wait
RetryFetch(outcome) ==
  /\ retryPc = "fetching"
  /\ attempt < maxRetries
  /\ fetched' = Append(fetched, outcome)
  /\ retryPc' = AttemptEnds(attempt, outcome)
  /\ waited' = IF retryPc' = "waiting"
                 THEN Append(waited, Backoff(attempt)) ELSE waited
  /\ UNCHANGED attempt
  /\ UNCHANGED <<coordVars, queueVars, limiterVars, clientVars>>

\* the wait is over: continue with the next attempt
RetryWake ==
  /\ retryPc = "waiting"
  /\ attempt' = attempt + 1
  /\ retryPc' = "fetching"
  /\ UNCHANGED <<fetched, waited>>
  /\ UNCHANGED <<coordVars, queueVars, limiterVars, clientVars>>

\* ------------------------------------------------------------ the client
\* Home.tsx: the status query of the page, keyed by the routingTransactionId
\* of transactionResult

\* refetchInterval of the status query, in ms
PollIntervalMs == 5000

\* refetchInterval returning false
NoInterval == 0

\* no interval timer is set
NoTimer == 0 - 1

\* time passes in steps of this many ms
ClientTickMs == PollIntervalMs \div 2

\* a query that is refetched for ever
refetchIntervalAlways(data) == PollIntervalMs

\* refetchInterval: (query) => ..., on the data of the query
refetchInterval(data) ==
  IF data = "" THEN PollIntervalMs
  ELSE IF data \in {"finished", "failed", "refunded", "expired"} THEN NoInterval
  ELSE PollIntervalMs

\* useState(""), and no fee estimate yet
NoForm == [transferRecipient |-> NoAddress, transferAmount |-> "", feeEstimate |-> "none"]

\* what the user can have typed, and what estimateFees can have answered
FormInputs ==
  [transferRecipient : {NoAddress, [text |-> "", pad |-> TRUE],
                        [text |-> "SoLRecipient", pad |-> TRUE],
                        [text |-> "SoLRecipient", pad |-> FALSE]},
   transferAmount : AmountStrings,
   feeEstimate : {"none", "valid", "invalid"}]

\* a button that stays enabled while the mutation is pending
SubmitDisabledWhileEmpty(f, pending) ==
  \/ IsEmptyString(f.transferRecipient)
  \/ f.transferAmount = ""
  \/ f.feeEstimate = "invalid"

\* disabled={!transferRecipient || !transferAmount ||
\*           transferMutation.isPending || (feeEstimate && !feeEstimate.isValid)}
SubmitDisabled(f, pending) ==
  \/ IsEmptyString(f.transferRecipient)
  \/ f.transferAmount = ""
  \/ pending
  \/ f.feeEstimate = "invalid"

\* amount.toString() of a parsed amount
NumberToString(x) ==
  CASE x.nan -> "NaN"
    [] x.value = 0 -> "0"
    [] x.value = 0 - 10000 -> "-1"
    [] x.value = 500 -> "0.05"
    [] x.value = 15000 -> "1.5"
    [] x.value = 200000 -> "20"

\* the checks of handleTransfer pass
HandleTransferPasses(f) ==
  /\ ~IsEmptyString(f.transferRecipient)
  /\ ~IsEmptyString(Trim(f.transferRecipient))
  /\ f.transferAmount # ""
  /\ ~isNaN(parseFloat(f.transferAmount))
  /\ parseFloat(f.transferAmount).value > 0

\* the payload handleTransfer passes to transferMutation.mutate
MutatePayload(f) ==
  Payload(TRUE, Trim(f.transferRecipient),
          NumberToString(parseFloat(f.transferAmount)), "sol", "sol")

ClientInit ==
  /\ transactionResult = 0
  /\ queryData = ""
  /\ fetching = FALSE
  /\ timer = NoTimer
  /\ form = NoForm
  /\ isPending = FALSE

\* onSuccess of transferMutation: the query gets a new key, is enabled,
\* fetches at once and sets its interval
ClientOnSuccess ==
  /\ out.op = "transfer"
  /\ out.response.code = "OK"
  /\ isPending \/ transactionResult # out.response.routingTransactionId
  /\ transactionResult' = out.response.routingTransactionId
  /\ queryData' = ""
  /\ fetching' = TRUE
  /\ timer' = refetchInterval("")
  /\ isPending' = FALSE
  /\ UNCHANGED form
  /\ UNCHANGED <<coordVars, queueVars, limiterVars, retryVars>>

\* onError of transferMutation: setTransactionResult(null) disables the query
ClientOnError ==
  /\ out.op = "transfer"
  /\ out.response.code \notin {"OK", "NONE"}
  /\ isPending \/ transactionResult # 0
  /\ transactionResult' = 0
  /\ queryData' = ""
  /\ fetching' = FALSE
  /\ timer' = NoTimer
  /\ isPending' = FALSE
  /\ UNCHANGED form
  /\ UNCHANGED <<coordVars, queueVars, limiterVars, retryVars>>

\* the answer of getRoutingStatus arrives; the interval is computed again
\* on the new data and the timer is set or cleared when it changed
ClientFetchReturns(ok) ==
  /\ fetching
  /\ transactionResult # 0
  /\ LET status ==
           IF ok /\ UpstreamKnows(transactionResult)
             THEN SanitizedStatus(upstream[transactionResult])
             ELSE StatusOnError.status
     IN  /\ queryData' = status
         /\ timer' =
              IF refetchInterval(status) = NoInterval THEN NoTimer
              ELSE IF timer = NoTimer THEN refetchInterval(status)
              ELSE timer
  /\ fetching' = FALSE
  /\ UNCHANGED <<transactionResult, form, isPending>>
  /\ UNCHANGED <<coordVars, queueVars, limiterVars, retryVars>>

\* time passes, up to the moment the timer fires
ClientTick ==
  /\ timer > 0
  /\ timer' = timer - ClientTickMs
  /\ UNCHANGED <<transactionResult, queryData, fetching, form, isPending>>
  /\ UNCHANGED <<coordVars, queueVars, limiterVars, retryVars>>

\* the interval timer fires: a refetch (none is added to one in flight)
ClientIntervalPoll ==
  /\ timer = 0
  /\ fetching' = TRUE
  /\ timer' = refetchInterval(queryData)
  /\ UNCHANGED <<transactionResult, queryData, form, isPending>>
  /\ UNCHANGED <<coordVars, queueVars, limiterVars, retryVars>>

\* refetchOnWindowFocus: true, the window gets the focus
ClientFocus ==
  /\ transactionResult # 0
  /\ ~fetching
  /\ fetching' = TRUE
  /\ UNCHANGED <<transactionResult, queryData, timer, form, isPending>>
  /\ UNCHANGED <<coordVars, queueVars, limiterVars, retryVars>>

\* the user types into one field of the form, or a fee estimate arrives
ClientEdit(f) ==
  /\ Cardinality({k \in DOMAIN f : f[k] # form[k]}) = 1
  /\ form' = f
  /\ UNCHANGED <<transactionResult, queryData, fetching, timer, isPending>>
  /\ UNCHANGED <<coordVars, queueVars, limiterVars, retryVars>>

\* a click on the submit button: handleTransfer, whose mutate sends the
\* request that handler p serves
ClientClick(p) ==
  /\ ~SubmitDisabled(form, isPending)
  /\ HandleTransferPasses(form)
  /\ TransferBegin(p, MutatePayload(form))
  /\ isPending' = TRUE
  /\ UNCHANGED <<transactionResult, queryData, fetching, timer, form>>
  /\ UNCHANGED <<queueVars, limiterVars, retryVars>>

\* ---------------------------------------------------------- specifications
Init == CoordInit /\ QueueInit /\ LimiterInit /\ RetryInit /\ ClientInit

\* one handler serving transfer on every request and every create response
RequestNext ==
  \/ \E p \in Sessions, payload \in TransferInputs : TransferStart(p, payload)
  \/ \E p \in Sessions : TransferCreateFails(p)
  \/ \E p \in Sessions, shape \in ResponseShapes, ref \in Refs :
       TransferCreateAnswers(p, shape, ref)
  \/ \E p \in Sessions, dbOk \in BOOLEAN : TransferStoreRouting(p, dbOk)
  \/ \E p \in Sessions, dbOk \in BOOLEAN : TransferCreateTransaction(p, dbOk)

SpecRequest == Init /\ [][RequestNext]_vars

\* concurrent handlers serving transfer
TransferNext ==
  \/ \E p \in Procs, payload \in RaceInputs : TransferStart(p, payload)
  \/ \E p \in Procs : TransferCreateFails(p)
  \/ \E p \in Procs, shape \in ResponseShapes, ref \in Refs :
       TransferCreateAnswers(p, shape, ref)
  \/ \E p \in Procs, dbOk \in BOOLEAN : TransferStoreRouting(p, dbOk)
  \/ \E p \in Procs, dbOk \in BOOLEAN : TransferCreateTransaction(p, dbOk)

SpecTransfer == Init /\ [][TransferNext]_vars

\* concurrent handlers serving transfer and shield: all writers of the
\* table transactions
RecordsNext ==
  \/ TransferNext
  \/ \E p \in Procs, walletId \in WalletInputs, amountSol \in {"abc", "1.5"},
        txSignature \in Refs, dbOk \in BOOLEAN :
       Shield(p, walletId, amountSol, txSignature, dbOk)

SpecRecords == Init /\ [][RecordsNext]_vars

\* two users at once: each creates a transfer and polls the status of an
\* upstream transaction while the exchange service moves them on
PollingNext ==
  \/ \E p \in Procs, payload \in CoordInputs : TransferStart(p, payload)
  \/ \E p \in Procs : TransferCreateFails(p)
  \/ \E p \in Procs, shape \in HonestShapes, ref \in Refs :
       TransferCreateAnswers(p, shape, ref)
  \/ \E p \in Procs : TransferStoreRouting(p, TRUE)
  \/ \E p \in Procs : TransferCreateTransaction(p, TRUE)
  \/ \E p \in Procs, id \in UpIds : GetRoutingStatusStart(p, id)
  \/ \E p \in Procs, ok \in BOOLEAN : GetRoutingStatusFinish(p, ok)
  \/ \E id \in UpIds, status \in UpstreamStatuses : UpstreamAdvance(id, status)

SpecPolling == Init /\ [][PollingNext]_vars

\* the page of one client: it submits transfers and follows the status of
\* the last one while the exchange service moves it on
ClientNext ==
  \/ \E p \in Sessions, payload \in CoordInputs : TransferStart(p, payload)
  \/ \E p \in Sessions : TransferCreateFails(p)
  \/ \E p \in Sessions, shape \in HonestShapes, ref \in Refs :
       TransferCreateAnswers(p, shape, ref)
  \/ \E p \in Sessions, dbOk \in BOOLEAN : TransferStoreRouting(p, dbOk)
  \/ \E p \in Sessions, dbOk \in BOOLEAN : TransferCreateTransaction(p, dbOk)
  \/ \E id \in UpIds, status \in UpstreamStatuses : UpstreamAdvance(id, status)
  \/ ClientOnSuccess
  \/ ClientOnError
  \/ \E ok \in BOOLEAN : ClientFetchReturns(ok)
  \/ ClientTick
  \/ ClientIntervalPoll
  \/ ClientFocus

SpecClient == Init /\ [][ClientNext]_vars

\* one browser session at the form, and the handlers that serve its requests
SubmitNext ==
  \/ \E f \in FormInputs : ClientEdit(f)
  \/ \E p \in Procs : ClientClick(p)
  \/ \E p \in Procs : TransferCreateFails(p)
  \/ \E p \in Procs, shape \in HonestShapes, ref \in Refs :
       TransferCreateAnswers(p, shape, ref)
  \/ \E p \in Procs, dbOk \in BOOLEAN : TransferStoreRouting(p, dbOk)
  \/ \E p \in Procs, dbOk \in BOOLEAN : TransferCreateTransaction(p, dbOk)
  \/ ClientOnSuccess
  \/ ClientOnError

SpecSubmit == Init /\ [][SubmitNext]_vars

\* the life of a transfer: a valid request answered honestly, then the
\* status procedures, the monitor and the exchange service
Next ==
  \/ \E p \in Sessions, payload \in CoordInputs : TransferStart(p, payload)
  \/ \E p \in Sessions : TransferCreateFails(p)
  \/ \E p \in Sessions, shape \in HonestShapes, ref \in Refs :
       TransferCreateAnswers(p, shape, ref)
  \/ \E p \in Sessions, dbOk \in BOOLEAN : TransferStoreRouting(p, dbOk)
  \/ \E p \in Sessions, dbOk \in BOOLEAN : TransferCreateTransaction(p, dbOk)
  \/ \E p \in Sessions, txSignature \in Refs, dbOk \in BOOLEAN :
       GetTransactionStart(p, txSignature, dbOk)
  \/ \E p \in Sessions, ok \in BOOLEAN : GetTransactionFinish(p, ok)
  \/ \E p \in Sessions, id \in UpIds : GetRoutingStatusStart(p, id)
  \/ \E p \in Sessions, ok \in BOOLEAN : GetRoutingStatusFinish(p, ok)
  \/ \E p \in Sessions, txSignature \in Refs : ConfirmStart(p, txSignature)
  \/ \E p \in Sessions, confirmed \in BOOLEAN, ok \in BOOLEAN :
       ConfirmFinish(p, confirmed, ok)
  \/ \E p \in Sessions, dbOk \in BOOLEAN : GetRecent(p, dbOk)
  \/ \E p \in Sessions, walletId \in WalletInputs : History(p, walletId)
  \/ \E txSignature \in Refs : MonitorPoll(txSignature)
  \/ \E id \in UpIds, status \in UpstreamStatuses : UpstreamAdvance(id, status)

Spec == Init /\ [][Next]_vars

QueueNext ==
  \/ \E operation \in {"create", "status"}, n \in BurstSizes :
       QueueEnqueue(operation, n)
  \/ QueueSlot

SpecQueue == Init /\ [][QueueNext]_vars

\* the queue under arrivals that never end; the dispatch timer keeps firing
QueueLiveNext ==
  \/ \E operation \in {"create", "status"} : QueueArrive(operation)
  \/ QueueDispatch

SpecQueueLive == Init /\ [][QueueLiveNext]_vars /\ WF_vars(QueueDispatch)

\* the limiters of the module serving the requests of a few clients
LimiterNext ==
  \/ \E limiter \in Limiters, r \in LimiterRequests, n \in LimiterBursts :
       LimiterHandle(limiter, r, n)
  \/ LimiterCleanup
  \/ LimiterTick

SpecLimiter == Init /\ [][LimiterNext]_vars

\* calls of the exchange client, one after the other; an attempt ends
\* (the fetch has a timeout) and a wait ends (the timer fires)
RetryNext ==
  \/ RetryCall
  \/ \E outcome \in FetchOutcomes : RetryFetch(outcome)
  \/ RetryWake

SpecRetry ==
  /\ Init /\ [][RetryNext]_vars
  /\ WF_vars(\E outcome \in FetchOutcomes : RetryFetch(outcome))
  /\ WF_vars(RetryWake)

C2_OneMappingPerReference ==
  /\ \A r1, r2 \in transactionRouting :
       r1.txSignature = r2.txSignature => r1 = r2
  /\ (out.op = "transfer" /\ "routingDuplicate" \in out.did) =>
       \E row \in transactionRouting :
         /\ row.txSignature = out.response.txSignature
         /\ row.routingTransactionId # out.response.routingTransactionId

\* two handlers drew the same reference: one has stored its mapping and is
\* still at work, the other met the duplicate and returned
C2_RaceOnOneReference ==
  \E q \in Procs :
    /\ pc[q] = "createTransaction"
    /\ "routingStored" \in did[q]
    /\ out.op = "transfer"
    /\ out.proc # q
    /\ "routingDuplicate" \in out.did
    /\ out.response.txSignature = loc[q].userTxRef

\* the create call of the run was answered, with a payoutAddress that is not
\* the address the run sent
PayoutDiffers(payload, l, events) ==
  /\ events \cap {"created", "createRejected"} # {}
  /\ l.payoutAddress # Trim(payload.recipientAddress)

\* C3 (SpecTransfer): a transfer whose create response carries a payoutAddress
\* other than the (trimmed) recipient address it sent never reaches its
\* database writes: it ends in an error, and no mapping holds its upstream id.
C3_PayoutMismatchFails ==
  /\ \A p \in Procs :
       pc[p] \in {"storeRouting", "createTransaction"} =>
         ~PayoutDiffers(req[p], loc[p], did[p])
  /\ (out.op = "transfer" /\ PayoutDiffers(out.payload, out.loc, out.did)) =>
       /\ out.response.code = "INTERNAL_SERVER_ERROR"
       /\ out.did \cap {"routingStored", "recordStored"} = {}
       /\ \A row \in transactionRouting :
            out.loc.routingTxId # 0 =>
              row.routingTransactionId # out.loc.routingTxId

\* a response in order but for its payoutAddress made the transfer fail
C3_MismatchRejected ==
  /\ out.op = "transfer"
  /\ PayoutDiffers(out.payload, out.loc, out.did)
  /\ out.loc.routingTxId # 0
  /\ PatternOf(out.loc.payinAddress.text) = "sol"
  /\ ~IsEmptyString(out.loc.payoutAddress)
  /\ out.response.code = "INTERNAL_SERVER_ERROR"

\* C4 (Spec): a record whose status is confirmed or failed keeps that status
\* in every step, whatever operation takes the step.
C4_TerminalStatusKept ==
  [][\A tx \in transactions :
       tx.status \in {"confirmed", "failed"} =>
         \E after \in transactions' :
           after.txSignature = tx.txSignature /\ after.status = tx.status]_vars

\* the request is one the listed checks accept: payload present, currency
\* supported, network one of the currency's, address of the network's
\* pattern, amount a positive number not below the currency's minimum
Acceptable(payload) ==
  /\ payload.present
  /\ payload.recipientAddress # NoAddress
  /\ payload.amount # ""
  /\ LET currency == ToLowerCase(IF payload.currency = "" THEN "sol"
                                 ELSE payload.currency)
         network == ToLowerCase(IF payload.network = "" THEN currency
                                ELSE payload.network)
     IN  /\ currency \in DOMAIN CURRENCY_NETWORKS
         /\ network \in CURRENCY_NETWORKS[currency]
         /\ PatternOf(payload.recipientAddress.text) = NETWORK_ADDRESS_TYPE[network]
         /\ ~parseFloat(payload.amount).nan
         /\ parseFloat(payload.amount).value > 0
         /\ parseFloat(payload.amount).value >= MIN_AMOUNT[currency]

\* C5 (SpecRequest): a transfer whose request fails one of the checks ends
\* with BAD_REQUEST and has done nothing: no handler ever waits on a create
\* call or writes to the database for such a request.
C5_InvalidRequestRejected ==
  /\ \A p \in Procs : op[p] = "transfer" => Acceptable(req[p])
  /\ (out.op = "transfer" /\ ~Acceptable(out.payload)) =>
       /\ out.response.code = "BAD_REQUEST"
       /\ out.did = {}

\* a request in order but for an amount below the minimum was rejected
\* after a transfer before it had written both rows
C5_BelowMinimumRejected ==
  /\ out.op = "transfer"
  /\ out.payload.present
  /\ out.payload.amount = "0.05"
  /\ out.response.code = "BAD_REQUEST"
  /\ transactions # {}

\* C6 (SpecTransfer): a handler writes the record only after it has written
\* the mapping, so every record has its mapping; and a transfer whose create
\* call succeeded returns success with its reference and deposit address,
\* whatever became of the two writes.
C6_MappingBeforeRecord ==
  /\ \A p \in Procs :
       /\ pc[p] = "createTransaction" => "routingStored" \in did[p]
       /\ "recordStored" \in did[p] => "routingStored" \in did[p]
  /\ "recordStored" \in out.did => "routingStored" \in out.did
  /\ \A tx \in transactions :
       \E row \in transactionRouting : row.txSignature = tx.txSignature
  /\ (out.op = "transfer" /\ "created" \in out.did) =>
       /\ out.response.code = "OK"
       /\ out.response.txSignature = out.loc.userTxRef
       /\ out.response.txSignature \in Refs
       /\ out.response.payinAddress = out.loc.payinAddress
       /\ ~IsEmptyString(out.response.payinAddress)

\* the mapping write failed: no record was written for the reference, and
\* the client still got success
C6_MappingFailedStillSuccess ==
  /\ out.op = "transfer"
  /\ "routingFailed" \in out.did
  /\ out.response.code = "OK"
  /\ \A tx \in transactions : tx.txSignature # out.response.txSignature

\* C7 as stated (Spec): no status procedure ends in an error.
C7_NoStatusError ==
  out.op \in {"getTransaction", "getRoutingStatus"} => out.response.code = "OK"

\* C7 (Spec): getRoutingStatus never ends in an error, and returns "waiting"
\* when the exchange service does not know the id or the call fails;
\* getTransaction throws NOT_FOUND for a reference without a record.
C7_RoutingStatusNeverFails ==
  /\ out.op = "getRoutingStatus" =>
       /\ out.response.code = "OK"
       /\ "statusFailed" \in out.did => out.response.status = "waiting"
       /\ ~UpstreamKnows(out.loc.arg) => out.response.status = "waiting"
  /\ (out.op = "getTransaction" /\ out.loc.tx = {}) =>
       out.response.code = "NOT_FOUND"

\* getRoutingStatus answered for an id the exchange service does not know
C7_UnknownIdWaits ==
  /\ out.op = "getRoutingStatus"
  /\ ~UpstreamKnows(out.loc.arg)
  /\ out.response.code = "OK"
  /\ out.response.status = "waiting"

\* C8 (SpecQueue): a dispatch slot sends no create call while a status call
\* waits in the queue.
C8_StatusBeforeCreate ==
  [][clock' # clock =>
       \A i \in DOMAIN dispatched' :
         dispatched'[i].operation = "create" =>
           \A j \in DOMAIN queue : queue[j].operation # "status"]_vars

\* a status call was sent while a create call enqueued no later still waits
C8_StatusWentFirst ==
  /\ Len(dispatched) = 1
  /\ dispatched[1].operation = "status"
  /\ \E j \in DOMAIN queue :
       /\ queue[j].operation = "create"
       /\ queue[j].enqueuedAt <= dispatched[1].enqueuedAt

\* handler p takes the step in which its getRoutingStatus call returns
RoutingStatusReturns(p) ==
  /\ pc[p] = "awaitRoutingStatus"
  /\ op[p] = "getRoutingStatus"
  /\ pc'[p] = "idle"

\* C9 as stated (Spec): getRoutingStatus returns the normalized status.
C9_NormalizedStatusReturned ==
  [][\A p \in Procs :
       (RoutingStatusReturns(p) /\ UpstreamKnows(loc[p].arg)
          /\ "statusFailed" \notin out'.did) =>
         out'.response.status = NormalizeStatus(upstream[loc[p].arg])]_vars

\* C9 (Spec): getRoutingStatus returns the status of the exchange service
\* as it is (finished stays finished), or "waiting" when the call failed.
C9_UpstreamStatusReturned ==
  [][\A p \in Procs :
       RoutingStatusReturns(p) =>
         \/ /\ UpstreamKnows(loc[p].arg)
            /\ out'.response.status = upstream[loc[p].arg]
         \/ /\ "statusFailed" \in out'.did
            /\ out'.response.status = "waiting"]_vars

\* getRoutingStatus returned finished for a transfer whose record the
\* monitor has set to confirmed
C9_FinishedReturned ==
  /\ out.op = "getRoutingStatus"
  /\ out.response.status = "finished"
  /\ \E row \in transactionRouting, tx \in transactions :
       /\ row.routingTransactionId = out.loc.arg
       /\ tx.txSignature = row.txSignature
       /\ tx.status = "confirmed"

\* the upstream id handler p asks the exchange service about
AskedId(o, l) == IF o = "getRoutingStatus" THEN l.arg ELSE l.routingTxId

\* the record of the transfer with upstream id is confirmed or failed
TerminalRecord(id) ==
  \E row \in transactionRouting, tx \in transactions :
    /\ row.routingTransactionId = id
    /\ tx.txSignature = row.txSignature
    /\ tx.status \in {"confirmed", "failed"}

C11_FirstAdmittedRestRejected ==
  \A i \in DOMAIN replies :
    LET limiter == LimiterNamed(replies[i].limiter)
    IN  IF replies[i].nth <= limiter.maxRequests
          THEN replies[i].status = 200
          ELSE /\ replies[i].status = 429
               /\ replies[i].retryAfter <= Ceil(limiter.windowMs, 1000)

\* C12 (SpecLimiter): a sliding window: in the half window that ends now,
\* and so in every interval of windowMs that holds it, a limiter has
\* admitted at most maxRequests requests of a client.
C12_SlidingWindow ==
  \A c \in ClientIds, l \in LimiterNames :
    limiterLog[c][l].prev + limiterLog[c][l].cur <= LimiterNamed(l).maxRequests

\* C12, as the code has it (SpecLimiter): a fixed window: within one window
\* of a client a limiter admits at most maxRequests requests, and in the
\* half window that ends now, which a reset can cut in two, at most
\* twice maxRequests.
C12_FixedWindow ==
  \A c \in ClientIds, l \in LimiterNames :
    /\ limiterLog[c][l].passed <= LimiterNamed(l).maxRequests
    /\ limiterLog[c][l].prev + limiterLog[c][l].cur
         <= 2 * LimiterNamed(l).maxRequests

\* a limiter has admitted all it may in a client's window, and more than
\* that within the last half window
C12_FullAcrossReset ==
  \E c \in ClientIds, l \in LimiterNames :
    /\ limiterLog[c][l].passed = LimiterNamed(l).maxRequests
    /\ limiterLog[c][l].prev + limiterLog[c][l].cur
         > LimiterNamed(l).maxRequests

\* C13 (SpecRetry): a 4xx response fails the call at once: the attempt that
\* met it is the last one, the call throws, and no wait follows it.
C13_ClientErrorFailsAtOnce ==
  \A i \in DOMAIN fetched :
    ClientError(fetched[i]) =>
      /\ i = Len(fetched)
      /\ retryPc = "threw"
      /\ Len(waited) < i

\* an attempt that met no response or a 5xx response
Transient(outcome) == outcome = NoResponseStatus \/ outcome >= 500

C16_EqualPriorityInEnqueueOrder ==
  [][clock' # clock =>
       \A i \in DOMAIN dispatched' : \A j \in DOMAIN queue' :
         queue'[j].priority = dispatched'[i].priority =>
           queue'[j].enqueuedAt >= dispatched'[i].enqueuedAt]_vars

\* a call was sent while a call of its priority enqueued later still waits
C16_OlderWentFirst ==
  /\ Len(dispatched) = 1
  /\ \E j \in DOMAIN queue :
       /\ queue[j].priority = dispatched[1].priority
       /\ queue[j].enqueuedAt > dispatched[1].enqueuedAt

\* a call of this operation waits in the queue
Waiting(operation) == \E j \in DOMAIN queue : queue[j].operation = operation

\* the last dispatch slot sent a call of this operation
Sent(operation) ==
  \E i \in DOMAIN dispatched : dispatched[i].operation = operation

\* the calls of this operation are all served: again and again none of
\* them waits, or again and again a slot sends one (the oldest, C16)
Served(operation) ==
  \/ []<>(~Waiting(operation))
  \/ []<><<QueueDispatch /\ Sent(operation)'>>_vars

C17_OnlySanitizedProjection ==
  out.op \in {"transfer", "getTransaction", "getRoutingStatus"} =>
    /\ out.response.routingTransactionId = 0
    /\ Len(out.response.payoutHash.text) <= 16

ReadProcedures == {"getTransaction", "getRoutingStatus", "getRecent", "history"}

\* the step is one a read procedure takes: it starts, resumes or returns
ReadStep ==
  \E p \in Procs :
    \/ pc[p] # "idle" /\ op[p] \in ReadProcedures /\ pc'[p] # pc[p]
    \/ pc[p] = "idle" /\ pc'[p] # "idle" /\ op'[p] \in ReadProcedures
    \/ /\ pc[p] = "idle" /\ pc'[p] = "idle"
       /\ out' # out /\ out'.proc = p /\ out'.op \in ReadProcedures

\* the step is the return of confirmTransaction
ConfirmStep ==
  \E p \in Procs :
    pc[p] = "awaitConfirm" /\ op[p] = "confirmTransaction" /\ pc'[p] = "idle"

\* the step is a poll of the monitor for a reference whose upstream
\* transaction has reached a terminal status
MonitorStepOnTerminal(txSignature) ==
  /\ monitorWrites'[txSignature] # monitorWrites[txSignature]
  /\ \E id \in getRoutingTransactionId(transactionRouting, txSignature) :
       upstream[id] \in TERMINAL_STATUSES

\* C18 (Spec): a step of getTransaction, getRoutingStatus, getRecent or
\* history leaves the records and the mappings as they are, and the status
\* of a record changes only in a poll of the monitor that finds a terminal
\* upstream status or in the return of confirmTransaction.
C18_ReadsLeaveRecordsAlone ==
  [][/\ ReadStep =>
          transactions' = transactions /\ transactionRouting' = transactionRouting
     /\ \A tx \in transactions : \A after \in transactions' :
          (after.txSignature = tx.txSignature /\ after.status # tx.status) =>
            MonitorStepOnTerminal(tx.txSignature) \/ ConfirmStep]_vars

\* getRecent or history returned the record of a transfer, still pending
C18_RecordsListed ==
  /\ out.op \in {"getRecent", "history"}
  /\ out.response.rows # {}
  /\ out.response.rows = transactions
  /\ \E tx \in transactions : tx.status = "pending"

\* handler p takes the step in which transfer starts and puts its create
\* call in the queue
QueuesCreate(p) ==
  /\ pc[p] = "idle"
  /\ pc'[p] = "awaitCreate"
  /\ op'[p] = "transfer"
  /\ "createQueued" \in did'[p]

\* handler p takes the step in which transfer starts and returns at once
ReturnsAtOnce(p) ==
  /\ pc[p] = "idle"
  /\ pc'[p] = "idle"
  /\ out' # out
  /\ out'.proc = p
  /\ out'.op = "transfer"

Repeated(payload, p) ==
  \/ \E q \in Procs \ {p} : op[q] = "transfer" /\ req[q] = payload
  \/ out.op = "transfer" /\ out.response.code = "OK" /\ out.payload = payload

MappingCreatedBy(p) ==
  /\ pc[p] = "storeRouting"
  /\ "created" \in did[p]
  /\ "routingStored" \notin did[p]
  /\ UpstreamKnows(loc[p].routingTxId)
  /\ transactionRouting' = transactionRouting \cup
       {[txSignature |-> loc[p].userTxRef,
         routingTransactionId |-> loc[p].routingTxId]}

\* no step deletes a mapping or gives a reference another upstream id
MappingsKept ==
  /\ transactionRouting \subseteq transactionRouting'
  /\ \A old \in transactionRouting, new \in transactionRouting' :
       new.txSignature = old.txSignature => new = old

\* C22 as stated (Spec): the table of mappings changes only by the insert
\* of a handler whose create call returned, no step deletes or changes a
\* mapping, and every transfer that returned success has its mapping.
C22_MappingOncePerSuccess ==
  /\ [][/\ MappingsKept
        /\ transactionRouting' # transactionRouting =>
             \E p \in Sessions : MappingCreatedBy(p)]_vars
  /\ [](out.op = "transfer" /\ out.response.code = "OK" =>
          \E row \in transactionRouting :
            /\ row.txSignature = out.response.txSignature
            /\ row.routingTransactionId = out.response.routingTransactionId)

\* C22 amended (Spec): the table of mappings changes only by the insert of
\* a handler whose create call returned, at most once per transfer, no step
\* deletes or changes a mapping, and a transfer that returned success has
\* its mapping unless its insert failed.
C22_MappingAtMostOnce ==
  /\ [][/\ MappingsKept
        /\ transactionRouting' # transactionRouting =>
             \E p \in Sessions : MappingCreatedBy(p)]_vars
  /\ [](out.op = "transfer" /\ out.response.code = "OK" =>
          \/ out.did \cap {"routingFailed", "routingDuplicate"} # {}
          \/ \E row \in transactionRouting :
               /\ row.txSignature = out.response.txSignature
               /\ row.routingTransactionId = out.response.routingTransactionId)

\* a later lookup read a mapping while upstream had moved on, and the
\* mapping is the one the transfer wrote
C22_MappingReadLater ==
  /\ out.op = "getTransaction"
  /\ out.response.code = "OK"
  /\ out.response.routingStatus = "finished"
  /\ \E row \in transactionRouting :
       /\ row.txSignature = out.response.txSignature
       /\ upstream[row.routingTransactionId] = "finished"

\* handler p receives the answer of its status call in this step
PollAnswered(p) ==
  /\ pc[p] = "awaitRoutingStatus"
  /\ op[p] = "getRoutingStatus"
  /\ pc'[p] = "idle"

Following ==
  transactionResult # 0 /\ queryData \notin TERMINAL_STATUSES

\* the interval timer fires in this step: the timer is due and is set
\* again, for the same query on the same data
IntervalPollStep ==
  /\ timer = 0
  /\ timer' # timer
  /\ UNCHANGED <<transactionResult, queryData>>

\* C24 (SpecClient): while the client follows a transfer whose last observed
\* status is not terminal, an interval poll is due within 5000 ms, and the
\* poll that fires sets the next one 5000 ms ahead; once the last observed
\* status is finished, failed, refunded or expired no timer is set, and no
\* interval poll fires on a terminal status.
C24_PollsUntilTerminal ==
  /\ [](Following => timer \in 0..PollIntervalMs)
  /\ [](~Following => timer = NoTimer)
  /\ [][IntervalPollStep =>
          /\ Following
          /\ fetching'
          /\ timer' = PollIntervalMs]_vars

\* the client saw its transfer finished and has no timer left, while the
\* upstream transaction it follows is the one of its transfer
C24_StoppedOnFinished ==
  /\ transactionResult # 0
  /\ queryData = "finished"
  /\ upstream[transactionResult] = "finished"
  /\ ~fetching
  /\ timer = NoTimer

\* C25 as stated (SpecTransfer): a handler that waits for its create call
\* holds its reference already.
C25_ReferenceBeforeCreate ==
  \A p \in Procs : pc[p] = "awaitCreate" => loc[p].userTxRef \in Refs

\* C25 amended (SpecTransfer): a handler that waits for its create call has
\* no reference yet; a handler holds a reference only after its create call
\* returned a valid response, when the upstream transaction exists.
C25_ReferenceAfterCreate ==
  \A p \in Procs :
    /\ pc[p] = "awaitCreate" => loc[p].userTxRef = 0
    /\ loc[p].userTxRef # 0 =>
         /\ "created" \in did[p]
         /\ UpstreamKnows(loc[p].routingTxId)

\* one handler holds its reference, drawn after its upstream transaction
\* was made, while the other still waits for its create call
C25_ReferenceDrawn ==
  \E p, q \in Procs :
    /\ pc[p] = "storeRouting"
    /\ loc[p].userTxRef \in Refs
    /\ upstream[loc[p].routingTxId] = "waiting"
    /\ pc[q] = "awaitCreate"
    /\ loc[q].userTxRef = 0

\* C26 (Spec): a lookup by a reference that has a mapping but no record
\* does not fail as not found: it ends with the status of the upstream
\* transaction the mapping names.
C26_MappingResolvesWithoutRecord ==
  (/\ out.op = "getTransaction"
   /\ pc[out.proc] = "idle"
   /\ out.loc.tx = {}
   /\ getRoutingTransactionId(transactionRouting, out.loc.arg) # {}) =>
    /\ out.response.code = "OK"
    /\ \E id \in getRoutingTransactionId(transactionRouting, out.loc.arg) :
         out.response.routingStatus = upstream[id]

\* the create response of the run lacked its id or its deposit address
LacksField(l, events) ==
  /\ events \cap {"created", "createRejected"} # {}
  /\ l.routingTxId = 0 \/ IsEmptyString(l.payinAddress)

\* C27 (SpecTransfer): a transfer whose create response lacks the id or the
\* payinAddress never reaches its database writes and ends in an error; no
\* mapping holds an absent upstream id and no record an absent deposit
\* address.
C27_AbsentFieldsNeverPersisted ==
  /\ \A p \in Procs :
       pc[p] \in {"storeRouting", "createTransaction"} =>
         ~LacksField(loc[p], did[p])
  /\ (out.op = "transfer" /\ LacksField(out.loc, out.did)) =>
       /\ out.response.code = "INTERNAL_SERVER_ERROR"
       /\ out.did \cap {"routingStored", "recordStored"} = {}
  /\ \A row \in transactionRouting :
       row.routingTransactionId \in UpIds /\ row.txSignature \in Refs
  /\ \A tx \in transactions :
       ~IsEmptyString(tx.payinAddress) /\ tx.txSignature \in Refs

\* a response in order but for its missing id made the transfer fail, after
\* another transfer had written both rows
C27_MissingIdRejected ==
  /\ out.op = "transfer"
  /\ "createRejected" \in out.did
  /\ out.loc.routingTxId = 0
  /\ PatternOf(out.loc.payinAddress.text) = "sol"
  /\ out.loc.payoutAddress = Trim(out.payload.recipientAddress)
  /\ out.response.code = "INTERNAL_SERVER_ERROR"
  /\ transactions # {}

\* the requests of client c a limiter would still admit at time t, going
\* by the entry st holds for the client
Budget(limiter, st, c, t) ==
  IF WindowOver(st[c], t) THEN limiter.maxRequests
  ELSE IF st[c].count >= limiter.maxRequests THEN 0
  ELSE limiter.maxRequests - st[c].count

\* C28 (SpecLimiter): a burst that one limiter handles for a client leaves
\* what the other limiter will do for that client as it was: the number of
\* requests it would still admit, and the window it counts them in.
C28_LimitersCountApart ==
  [][calls' # calls =>
       \A other \in Limiters, c \in ClientIds :
         other.name # replies'[1].limiter =>
           /\ Budget(other, store', c, now) = Budget(other, store, c, now)
           /\ WindowOver(store'[c], now) = WindowOver(store[c], now)
           /\ ~WindowOver(store[c], now) =>
                store'[c].resetTime = store[c].resetTime]_vars

\* C29 (SpecTransfer): for a transfer that returned success, the rows its
\* run wrote carry the reference it returned, and the mapping stored for
\* that reference holds the upstream id of the run's own create call.
C29_OneReferenceOneUpstreamId ==
  (out.op = "transfer" /\ out.response.code = "OK") =>
    /\ "routingStored" \in out.did =>
         \E row \in transactionRouting :
           row.txSignature = out.response.txSignature
    /\ "recordStored" \in out.did =>
         \E tx \in transactions :
           /\ tx.txSignature = out.response.txSignature
           /\ tx.payinAddress = out.response.payinAddress
    /\ \A row \in transactionRouting :
         row.txSignature = out.response.txSignature =>
           /\ row.routingTransactionId = out.loc.routingTxId
           /\ row.routingTransactionId = out.response.routingTransactionId

\* the reset time of the client's entry has not passed
InWindow(c) == store[c].present /\ now <= store[c].resetTime

\* C30 (SpecLimiter): a burst of requests handled for a client inside its
\* window, admitted or rejected, leaves the window's reset time as it is;
\* the first request handled after the reset time has passed is admitted,
\* opens a window of windowMs from now, and the count starts again at 1.
C30_BlockedClientRecovers ==
  [][calls' # calls =>
       LET c == replies'[1].clientId
           limiter == LimiterNamed(replies'[1].limiter)
       IN  IF InWindow(c)
             THEN store'[c].resetTime = store[c].resetTime
             ELSE /\ replies'[1].status = 200
                  /\ replies'[1].remaining = limiter.maxRequests - 1
                  /\ store'[c].count = Len(replies')
                  /\ store'[c].resetTime = now + limiter.windowMs]_vars

\* a client that was answered 429 is admitted again, in a window opened
\* after the reset time of the one it was blocked in
C30_AdmittedAfterReset ==
  \E c \in blocked :
    /\ replies # <<>>
    /\ replies[1].clientId = c
    /\ replies[1].status = 200
    /\ store[c].count = 1
    /\ store[c].resetTime = now + LimiterNamed(replies[1].limiter).windowMs
    /\ now > transactionRateLimiter.windowMs

\* the moments from now on at which a sweep or a request can come
LaterTimes == {now + k * TickMs : k \in 0..MaxTicks}

\* C31 (SpecLimiter): from every store the limiter reaches, a sweep at any
\* later moment changes nothing a later request can see: the request gets
\* the same answer from either limiter with and without the sweep, and the
\* two stores it leaves differ only in entries whose window is over; and a
\* sweep deletes only entries whose window is over.
C31_SweepTransparent ==
  \A t \in LaterTimes, c \in ClientIds :
    /\ Sweep(store, t)[c] # store[c] => store[c].resetTime < t
    /\ \A limiter \in Limiters, at \in {u \in LaterTimes : u >= t} :
         LET swept == Middleware(limiter, Sweep(store, t), c, at)
             kept == Middleware(limiter, store, c, at)
         IN  /\ swept.reply = kept.reply
             /\ Sweep(swept.store, at) = Sweep(kept.store, at)

\* the sweep has deleted the entry of a client that had been answered 429,
\* while the entry of the other client is kept
C31_BlockedEntrySwept ==
  \E c \in blocked, other \in ClientIds :
    /\ ~store[c].present
    /\ store[other].present

\* C32 (SpecLimiter): a burst of requests that comes from one address leaves
\* the entry (count and window) of every other address as it was.
C32_ClientsCountApart ==
  [][\A limiter \in Limiters, r \in LimiterRequests, n \in LimiterBursts :
       LimiterHandle(limiter, r, n) =>
         \A c \in ClientIds : c # r.remoteAddress => store'[c] = store[c]]_vars

\* C33 (SpecLimiter): every request answered 429 is told to retry after at
\* least 1 second, and the count of its client in the window exceeds the
\* maxRequests of the limiter that answered.
C33_RetryAfterAtLeastOne ==
  \A i \in DOMAIN replies :
    replies[i].status = 429 =>
      /\ replies[i].retryAfter >= 1
      /\ store[replies[i].clientId].count
           > LimiterNamed(replies[i].limiter).maxRequests

\* the handlers that serve a transfer request
InFlight == {p \in Procs : op[p] = "transfer"}

ConfirmRefusedStep ==
  /\ out' # out
  /\ out'.op = "confirmTransaction"
  /\ out'.response.code = "NOT_FOUND"

\* C35 (Spec): confirmTransaction for a reference without a record ends with
\* NOT_FOUND in a step that writes nothing; its return for a record that
\* exists leaves the record confirmed when the check answered true, and
\* failed with the message "Transaction failed to confirm" when it answered
\* false, and leaves every other record as it was.
C35_ConfirmWritesItsAnswer ==
  [][/\ ConfirmRefusedStep =>
          /\ getTransactionBySignature(transactions, out'.loc.arg) = {}
          /\ transactions' = transactions
          /\ transactionRouting' = transactionRouting
     /\ (ConfirmStep /\ out'.response.code = "OK") =>
          /\ out'.response.status \in {"confirmed", "failed"}
          /\ \E row \in transactions' :
               /\ row.txSignature = out'.loc.arg
               /\ row.status = out'.response.status
               /\ row.status = "failed" =>
                    row.errorMessage = "Transaction failed to confirm"
          /\ \A row \in transactions :
               row.txSignature # out'.loc.arg => row \in transactions']_vars

\* confirmTransaction has set the pending record of a transfer to failed,
\* with its message
C35_FailedWithMessage ==
  /\ out.op = "confirmTransaction"
  /\ out.response.code = "OK"
  /\ out.response.status = "failed"
  /\ \E row \in transactions :
       /\ row.txSignature = out.loc.arg
       /\ row.status = "failed"
       /\ row.errorMessage = "Transaction failed to confirm"
       /\ ~IsEmptyString(row.payinAddress)

\* C36 (SpecRequest): every network id of every supported currency has an
\* entry in NETWORK_ADDRESS_TYPE that names a pattern of ADDRESS_PATTERNS; a
\* transfer that got past its checks has a network of the table and a
\* recipient address of that network's pattern; and a request whose network
\* is one of its currency's and whose address matches no pattern is
\* rejected, however long the address is.
C36_NoPermissiveFallback ==
  /\ \A c \in DOMAIN CURRENCY_NETWORKS :
       /\ CURRENCY_NETWORKS[c] \subseteq DOMAIN NETWORK_ADDRESS_TYPE
       /\ \A n \in CURRENCY_NETWORKS[c] : NETWORK_ADDRESS_TYPE[n] \in ADDRESS_PATTERNS
  /\ \A p \in Procs :
       (op[p] = "transfer" /\ pc[p] # "idle") =>
         /\ getNetwork(TransferCurrency(req[p]), TransferNetwork(req[p]))
         /\ TransferNetwork(req[p]) \in DOMAIN NETWORK_ADDRESS_TYPE
         /\ PatternOf(Trim(req[p].recipientAddress).text)
              = NETWORK_ADDRESS_TYPE[TransferNetwork(req[p])]
  /\ (/\ out.op = "transfer"
      /\ out.payload.present
      /\ getNetwork(TransferCurrency(out.payload), TransferNetwork(out.payload))
      /\ PatternOf(Trim(out.payload.recipientAddress).text) = "none") =>
       out.response.code = "BAD_REQUEST"

\* a request for usdt on eth with a long string that is no address was
\* rejected
C36_LongNonAddressRejected ==
  /\ out.op = "transfer"
  /\ TransferCurrency(out.payload) = "usdt"
  /\ TransferNetwork(out.payload) = "eth"
  /\ out.payload.recipientAddress.text = "not an address"
  /\ LengthAtLeast20(out.payload.recipientAddress)
  /\ out.response.code = "BAD_REQUEST"
====
